---- MODULE Spec2Model ----
(***************************************************************************)
(* Model of main.py: the /tick handler, the background pipeline            *)
(* process_task, the commit reader fetch_github_commits, the retrying      *)
(* fetcher fetch_with_retries and the two delivery sinks.                  *)
(*                                                                         *)
(* Spec      the server: ticks arrive, each accepted tick schedules one    *)
(*           run of process_task; runs interleave at their await points.   *)
(* FetchSpec one call of fetch_github_commits whose fetch_with_retries is  *)
(*           entered with a retries value drawn from 0..MaxRetries.        *)
(***************************************************************************)
EXTENDS Integers, Sequences, FiniteSets

VARIABLES
    token,       \* GITHUB_TOKEN, read once at import (main.py:31)
    pathExists,  \* os.path.exists("/tmp/<repo>")
    responses,   \* the HTTP response of every /tick request, in arrival order
    runs,        \* the process_task runs scheduled by add_task, in order
    call         \* FetchSpec: the single call under test

vars == <<token, pathExists, responses, runs, call>>

----------------------------------------------------------------------------
(* Bounds *)

MaxTicks == 2
MaxRetries == 4
MaxUpstream == 3
MaxSha == 2
MaxCount == 3

(* Program constants *)

DefaultRetries == 3
DefaultCount == 3

----------------------------------------------------------------------------
(* Environment: what the outside world can answer *)

\* os.getenv returns None when unset; an empty variable gives "".
Tokens == {"<None>", "", "ghp_token"}

\* Outcomes of `await client.get(...)` followed by raise_for_status().
\* ReadTimeout stands for the httpx errors that are neither ConnectTimeout
\* nor NetworkError.
GetOutcomes == {"ok", "ConnectTimeout", "NetworkError", "HTTPStatusError", "ReadTimeout"}

\* An upstream JSON list: entry 0 is an entry without the expected keys,
\* entry s > 0 is a well-formed commit whose sha is s.
RECURSIVE SeqsUpTo(_, _)
SeqsUpTo(S, n) ==
    IF n = 0 THEN {<<>>}
    ELSE LET shorter == SeqsUpTo(S, n - 1)
         IN  shorter \cup {Append(s, x) : s \in {t \in shorter : Len(t) = n - 1}, x \in S}

Bodies ==
    {[kind |-> "list", items |-> s] : s \in SeqsUpTo(0..MaxSha, MaxUpstream)}
    \cup {[kind |-> "object", items |-> <<>>], [kind |-> "invalid", items |-> <<>>]}

----------------------------------------------------------------------------
(* fetch_with_retries: the frame of one call *)

NoFrame ==
    [state |-> "idle", retries |-> 0, attempt |-> 0, gets |-> 0,
     sleeps |-> <<>>, exc |-> "none"]

IsTransientAny(o) == o # "ok"
\* except (httpx.ConnectTimeout, httpx.NetworkError)
IsTransient(o) == o \in {"ConnectTimeout", "NetworkError"}

BackoffWaitLinear(attempt) == 2 * attempt
\* wait_time = 2 ** attempt
BackoffWait(attempt) == 2 ^ attempt

\* `for attempt in range(retries)`: the loop head.  An exhausted range falls
\* out of the loop and the function returns None.
LoopHead(f, attempt) ==
    IF attempt < f.retries
    THEN [f EXCEPT !.state = "get", !.attempt = attempt]
    ELSE [f EXCEPT !.state = "returned_none", !.attempt = attempt]

FetchEnter(retries) == LoopHead([NoFrame EXCEPT !.retries = retries], 0)

MayRetryOffByOne(f) == f.attempt < f.retries
\* if attempt < retries - 1
MayRetry(f) == f.attempt < f.retries - 1

\* One pass through the try block with the GET answering o.
FetchGet(f, o) ==
    LET g == [f EXCEPT !.gets = f.gets + 1] IN
    IF o = "ok" THEN [g EXCEPT !.state = "returned"]
    ELSE IF IsTransient(o)
         THEN IF MayRetry(g)
              THEN [g EXCEPT !.state = "sleep"]
              ELSE [g EXCEPT !.state = "raised", !.exc = o]
         ELSE [g EXCEPT !.state = "raised", !.exc = o]

\* await asyncio.sleep(wait_time) returns; next iteration of the loop.
FetchSleep(f) ==
    LoopHead([f EXCEPT !.sleeps = Append(f.sleeps, BackoffWait(f.attempt))],
             f.attempt + 1)

FrameDone(f) == f.state \in {"returned", "returned_none", "raised"}

----------------------------------------------------------------------------
(* fetch_github_commits *)

FalsyNoneOnly(t) == t = "<None>"
\* `if not GITHUB_TOKEN`
Falsy(t) == t \in {"<None>", ""}

ErrDict(msg) == [kind |-> "dict", keys |-> {"error"}, items |-> <<>>, error |-> msg]
ListResult(items) == [kind |-> "list", keys |-> {}, items |-> items, error |-> ""]
Raised(exc) == [kind |-> "raised", keys |-> {}, items |-> <<>>, error |-> exc]
NoResult == [kind |-> "none", keys |-> {}, items |-> <<>>, error |-> ""]

TakeLast(s, n) == SubSeq(s, IF Len(s) < n THEN 1 ELSE Len(s) - n + 1, Len(s))
\* commits[:count]
Take(s, n) == SubSeq(s, 1, IF Len(s) < n THEN Len(s) ELSE n)

\* The body of the try block: what it returns or which exception leaves it.
TryBody(f, body, count) ==
    IF f.state = "raised" THEN Raised(f.exc)
    ELSE IF f.state = "returned_none" THEN Raised("AttributeError")
    ELSE IF body.kind = "invalid" THEN Raised("JSONDecodeError")
    ELSE IF body.kind = "object" THEN Raised("TypeError")
    ELSE LET first == Take(body.items, count) IN
         IF \E i \in 1..Len(first) : first[i] = 0
         THEN Raised("KeyError")
         ELSE ListResult(first)

GithubCommitsNarrow(f, body, count) ==
    LET r == TryBody(f, body, count) IN
    IF r.kind = "raised" /\ r.error = "HTTPStatusError"
    THEN ErrDict("GitHub API error")
    ELSE r
\* try / except httpx.HTTPStatusError / except Exception
GithubCommits(f, body, count) ==
    LET r == TryBody(f, body, count) IN
    IF r.kind # "raised" THEN r
    ELSE IF r.error = "HTTPStatusError"
         THEN ErrDict("GitHub API error")
         ELSE ErrDict("Unexpected error fetching GitHub commits")

\* `'error' in commits`: a key test on a mapping; on a list it looks for an
\* element equal to the string, and the elements are commit records.
InTest(key, c) == IF c.kind = "dict" THEN key \in c.keys ELSE FALSE

----------------------------------------------------------------------------
(* FetchSpec: one call of fetch_github_commits, retries drawn from a set *)

NoBody == [kind |-> "none", items |-> <<>>]

\* count defaults to 3; body is the upstream body the call came to read.
NoCall ==
    [phase |-> "init", frame |-> NoFrame, log |-> <<>>, result |-> NoResult,
     count |-> DefaultCount, body |-> NoBody]

CallInit(r) == [NoCall EXCEPT !.frame.retries = r]

\* lines 71-80: the token test, then fetch_with_retries is entered.
CallStart ==
    /\ call.phase = "init"
    /\ IF Falsy(token)
       THEN call' = [call EXCEPT !.phase = "done",
                                 !.result = ErrDict("GITHUB_TOKEN not set")]
       ELSE call' = [call EXCEPT !.phase = "fetch",
                                 !.frame = FetchEnter(call.frame.retries)]
    /\ UNCHANGED <<token, pathExists, responses, runs>>

CallGet(o) ==
    /\ call.phase = "fetch"
    /\ call.frame.state = "get"
    /\ call' = [call EXCEPT !.frame = FetchGet(call.frame, o),
                            !.log = Append(call.log, o)]
    /\ UNCHANGED <<token, pathExists, responses, runs>>

CallSleep ==
    /\ call.phase = "fetch"
    /\ call.frame.state = "sleep"
    /\ call' = [call EXCEPT !.frame = FetchSleep(call.frame)]
    /\ UNCHANGED <<token, pathExists, responses, runs>>

\* lines 81-96: the fetcher has come back; the response is read.
CallFinish(body) ==
    /\ call.phase = "fetch"
    /\ FrameDone(call.frame)
    /\ call' = [call EXCEPT !.phase = "done",
                            !.body = IF call.frame.state = "returned" THEN body ELSE NoBody,
                            !.result = GithubCommits(call.frame, body, call.count)]
    /\ UNCHANGED <<token, pathExists, responses, runs>>

FetchInit ==
    /\ token \in Tokens
    /\ pathExists = FALSE
    /\ responses = <<>>
    /\ runs = <<>>
    /\ call \in {[CallInit(r) EXCEPT !.count = c] : r \in 0..MaxRetries, c \in 0..MaxCount}

FetchNext ==
    \/ CallStart
    \/ \E o \in GetOutcomes : CallGet(o)
    \/ CallSleep
    \/ \E b \in Bodies : CallFinish(b)

FetchSpec == FetchInit /\ [][FetchNext]_vars

----------------------------------------------------------------------------
(* The server: /tick and process_task *)

\* The body of the n-th request: one that fits MonitorPayload, carrying that
\* caller's return_url (callers are told apart by number), or one that the
\* request schema rejects.
Payloads(n) ==
    {[valid |-> TRUE, return_url |-> n], [valid |-> FALSE, return_url |-> 0]}

\* Upstream bodies the server runs are given: a list of two commits, a list
\* with an entry lacking the keys, a JSON object and a body that is not JSON.
TickBodies ==
    {[kind |-> "list", items |-> <<1, 2>>], [kind |-> "list", items |-> <<0>>],
     [kind |-> "object", items |-> <<>>], [kind |-> "invalid", items |-> <<>>]}

\* Outcomes of `await client.post(...)`: a response or an exception.
PostOutcomes == {"2xx", "non2xx", "exception"}

\* Exit of the linter subprocess; not_found: the executable cannot be spawned.
LintOutcomes == {"exit0", "nonzero", "not_found"}

NewRun(tick, url) ==
    [pc |-> "scheduled", tick |-> tick, return_url |-> url, status |-> "pending",
     exc |-> "none", frame |-> NoFrame, entered |-> FALSE, commits |-> NoResult,
     sawPath |-> "unknown", clones |-> 0, clone |-> "none",
     lints |-> 0, lint |-> "none", analysis |-> "none",
     logPosts |-> 0, logOutcome |-> "none", logged |-> "none",
     cbPosts |-> 0, cbTarget |-> 0, cbOutcome |-> "none"]

TickResponseOk == [status |-> 200, body |-> "ok"]
\* @app.post('/tick', status_code=202) ... return {'status': 'accepted'}
TickResponse == [status |-> 202, body |-> "accepted"]

\* The request schema rejects the body before handle_tick is entered.
ValidationError == [status |-> 422, body |-> "detail"]

HandleTickTwice(p) ==
    /\ Len(responses) < MaxTicks
    /\ IF p.valid
       THEN /\ runs' = runs \o << NewRun(Len(responses) + 1, p.return_url),
                                 NewRun(Len(responses) + 1, p.return_url) >>
            /\ responses' = Append(responses, TickResponse)
       ELSE /\ runs' = runs
            /\ responses' = Append(responses, ValidationError)
    /\ UNCHANGED <<token, pathExists, call>>
\* handle_tick: schedule the pipeline, answer at once.
HandleTick(p) ==
    /\ Len(responses) < MaxTicks
    /\ IF p.valid
       THEN /\ runs' = Append(runs, NewRun(Len(responses) + 1, p.return_url))
            /\ responses' = Append(responses, TickResponse)
       ELSE /\ runs' = runs
            /\ responses' = Append(responses, ValidationError)
    /\ UNCHANGED <<token, pathExists, call>>

Fail(run, exc) == [run EXCEPT !.pc = "done", !.status = "failed", !.exc = exc]
Return(run) == [run EXCEPT !.pc = "done", !.status = "returned"]

\* process_task starts and calls fetch_github_commits (lines 119-120, 71-80).
StartTask(r) ==
    /\ runs[r].pc = "scheduled"
    /\ LET run == [runs[r] EXCEPT !.status = "running"] IN
       IF Falsy(token)
       THEN runs' = [runs EXCEPT ![r] =
                [run EXCEPT !.pc = "fetched", !.commits = ErrDict("GITHUB_TOKEN not set")]]
       ELSE runs' = [runs EXCEPT ![r] =
                [run EXCEPT !.pc = "fetching", !.entered = TRUE,
                            !.frame = FetchEnter(DefaultRetries)]]
    /\ UNCHANGED <<token, pathExists, responses, call>>

\* One GET of the run's fetch_with_retries; when the call is over
\* fetch_github_commits reads the response and returns (lines 58-68, 81-96).
TaskGet(r, o, body) ==
    /\ runs[r].pc = "fetching"
    /\ runs[r].frame.state = "get"
    /\ LET f == FetchGet(runs[r].frame, o) IN
       IF FrameDone(f)
       THEN runs' = [runs EXCEPT ![r] =
                [@ EXCEPT !.pc = "fetched", !.frame = NoFrame,
                          !.commits = GithubCommits(f, body, DefaultCount)]]
       ELSE runs' = [runs EXCEPT ![r] = [@ EXCEPT !.frame = f]]
    /\ UNCHANGED <<token, pathExists, responses, call>>

TaskSleep(r) ==
    /\ runs[r].pc = "fetching"
    /\ runs[r].frame.state = "sleep"
    /\ runs' = [runs EXCEPT ![r] = [@ EXCEPT !.frame = FetchSleep(@)]]
    /\ UNCHANGED <<token, pathExists, responses, call>>

NeedsCloneAlways(exists) == TRUE
\* `if not os.path.exists(target_dir)`
NeedsClone(exists) == ~exists

RunPylintUncaught(lint) ==
    IF lint = "exit0" THEN [kind |-> "text", value |-> "stdout"]
    ELSE IF lint = "nonzero" THEN [kind |-> "raised", value |-> "CalledProcessError"]
    ELSE [kind |-> "raised", value |-> "FileNotFoundError"]
\* run_pylint: stdout on exit 0, e.output on CalledProcessError; any other
\* exception of subprocess.run leaves the function.
RunPylint(lint) ==
    IF lint = "exit0" THEN [kind |-> "text", value |-> "stdout"]
    ELSE IF lint = "nonzero" THEN [kind |-> "text", value |-> "output"]
    ELSE [kind |-> "raised", value |-> "FileNotFoundError"]

NoPlan ==
    [sawPath |-> "unknown", clone |-> "none", lint |-> "none", analysis |-> "none",
     end |-> "returned", exc |-> "none"]

AnalyseRepoNoCheck(exists, cloneOk, lint) ==
    LET seen == [NoPlan EXCEPT !.sawPath = IF exists THEN "present" ELSE "absent"]
        cloned == IF ~NeedsClone(exists) THEN seen
                  ELSE [seen EXCEPT !.clone = IF cloneOk THEN "ok" ELSE "failed"]
        out == RunPylint(lint)
    IN  IF out.kind = "raised"
        THEN [cloned EXCEPT !.lint = lint, !.end = "failed", !.exc = out.value]
        ELSE [cloned EXCEPT !.lint = lint, !.analysis = out.value, !.end = "log"]
\* The clone and the linter, once the commits are known to be a list.
AnalyseRepo(exists, cloneOk, lint) ==
    LET seen == [NoPlan EXCEPT !.sawPath = IF exists THEN "present" ELSE "absent"] IN
    IF NeedsClone(exists) /\ ~cloneOk
    THEN [seen EXCEPT !.clone = "failed", !.end = "failed", !.exc = "CalledProcessError"]
    ELSE LET cloned == IF NeedsClone(exists) THEN [seen EXCEPT !.clone = "ok"] ELSE seen
             out == RunPylint(lint)
         IN  IF out.kind = "raised"
             THEN [cloned EXCEPT !.lint = lint, !.end = "failed", !.exc = out.value]
             ELSE [cloned EXCEPT !.lint = lint, !.analysis = out.value, !.end = "log"]

AnalysisPlanLateCheck(commits, exists, cloneOk, lint) ==
    LET p == AnalyseRepo(exists, cloneOk, lint) IN
    IF p.end = "log" /\ InTest("error", commits) THEN [p EXCEPT !.end = "returned"] ELSE p
\* Lines 121-134, which hold no await: the error test, the insights, the
\* clone when the path is absent, the linter.
AnalysisPlan(commits, exists, cloneOk, lint) ==
    IF InTest("error", commits) THEN NoPlan
    ELSE IF commits.kind # "list"
         THEN [NoPlan EXCEPT !.end = "failed", !.exc = "TypeError"]
         ELSE AnalyseRepo(exists, cloneOk, lint)

Analyse(r, cloneOk, lint) ==
    /\ runs[r].pc = "fetched"
    /\ LET p == AnalysisPlan(runs[r].commits, pathExists, cloneOk, lint)
           run == [runs[r] EXCEPT
                      !.sawPath = p.sawPath,
                      !.clone = p.clone,
                      !.clones = @ + (IF p.clone = "none" THEN 0 ELSE 1),
                      !.lint = p.lint,
                      !.lints = @ + (IF p.lint = "none" THEN 0 ELSE 1),
                      !.analysis = p.analysis]
       IN  /\ pathExists' = (pathExists \/ p.clone = "ok")
           /\ runs' = [runs EXCEPT ![r] =
                  IF p.end = "log" THEN [run EXCEPT !.pc = "log"]
                  ELSE IF p.end = "returned" THEN Return(run)
                  ELSE Fail(run, p.exc)]
    /\ UNCHANGED <<token, responses, call>>

\* log_to_telex: `await client.post(TELEX_URL, json=report)` is issued.
LogSend(r) ==
    /\ runs[r].pc = "log"
    /\ runs' = [runs EXCEPT ![r] =
           [@ EXCEPT !.pc = "log_wait", !.logPosts = @ + 1, !.logOutcome = "pending"]]
    /\ UNCHANGED <<token, pathExists, responses, call>>

LogToTelexStrict(o) == IF o = "2xx" THEN "returned" ELSE "raised"
\* log_to_telex, lines 45-51: raise_for_status inside try / except Exception.
LogToTelex(o) == "returned"

\* Which logger call of log_to_telex ran: logger.info after a response that
\* passes raise_for_status, logger.error in the except clause.
LogBranch(o) == IF o = "2xx" THEN "info" ELSE "error"

LogResult(r, o) ==
    /\ runs[r].pc = "log_wait"
    /\ LET run == [runs[r] EXCEPT !.logOutcome = o, !.logged = LogBranch(o)] IN
       runs' = [runs EXCEPT ![r] =
           IF LogToTelex(o) = "returned"
           THEN [run EXCEPT !.pc = "callback"]
           ELSE Fail(run, "LogError")]
    /\ UNCHANGED <<token, pathExists, responses, call>>

CallbackSendEarly(r) ==
    /\ runs[r].pc \in {"log_wait", "callback"}
    /\ runs' = [runs EXCEPT ![r] =
           [@ EXCEPT !.pc = "callback_wait", !.cbPosts = @ + 1,
                     !.cbTarget = runs[r].return_url, !.cbOutcome = "pending"]]
    /\ UNCHANGED <<token, pathExists, responses, call>>
\* Lines 143-153: `await client.post(return_url, json=data)` is issued.
CallbackSend(r) ==
    /\ runs[r].pc = "callback"
    /\ runs' = [runs EXCEPT ![r] =
           [@ EXCEPT !.pc = "callback_wait", !.cbPosts = @ + 1,
                     !.cbTarget = runs[r].return_url, !.cbOutcome = "pending"]]
    /\ UNCHANGED <<token, pathExists, responses, call>>

CallbackEndStrict(o) == IF o = "2xx" THEN "returned" ELSE "raised"
\* Lines 150-156: the response is not inspected; an exception of the POST
\* becomes HTTPException(500) raised out of process_task.
CallbackEnd(o) == IF o = "exception" THEN "raised" ELSE "returned"

CallbackResult(r, o) ==
    /\ runs[r].pc = "callback_wait"
    /\ LET run == [runs[r] EXCEPT !.cbOutcome = o] IN
       runs' = [runs EXCEPT ![r] =
           IF CallbackEnd(o) = "returned" THEN Return(run) ELSE Fail(run, "HTTPException")]
    /\ UNCHANGED <<token, pathExists, responses, call>>

Init ==
    /\ token \in Tokens
    /\ pathExists \in BOOLEAN
    /\ responses = <<>>
    /\ runs = <<>>
    /\ call = NoCall

Next ==
    \/ \E p \in Payloads(Len(responses) + 1) : HandleTick(p)
    \/ \E r \in DOMAIN runs : StartTask(r)
    \/ \E r \in DOMAIN runs, o \in GetOutcomes, b \in TickBodies : TaskGet(r, o, b)
    \/ \E r \in DOMAIN runs : TaskSleep(r)
    \/ \E r \in DOMAIN runs, c \in BOOLEAN, l \in LintOutcomes : Analyse(r, c, l)
    \/ \E r \in DOMAIN runs : LogSend(r)
    \/ \E r \in DOMAIN runs, o \in PostOutcomes : LogResult(r, o)
    \/ \E r \in DOMAIN runs : CallbackSend(r)
    \/ \E r \in DOMAIN runs, o \in PostOutcomes : CallbackResult(r, o)

Spec == Init /\ [][Next]_vars

----------------------------------------------------------------------------
(* Properties *)

Transients == {"ConnectTimeout", "NetworkError"}
AllTransient(log) == \A i \in DOMAIN log : log[i] \in Transients

RECURSIVE SumSeq(_)
SumSeq(s) == IF s = <<>> THEN 0 ELSE s[1] + SumSeq(Tail(s))

TokenAbsent == token \in {"<None>", ""}

\* C1: every /tick request whose body is a valid MonitorPayload is answered
\* 202 {status: "accepted"}, and stays answered so whether its pipeline run
\* is still pending, short-circuited on an error, ended normally or failed.
C1_TickAccepted ==
    /\ Cardinality({i \in DOMAIN responses : responses[i].status # 422}) = Len(runs)
    /\ \A r \in DOMAIN runs :
        responses[runs[r].tick] = [status |-> 202, body |-> "accepted"]

C1_Witness ==
    \E r, q \in DOMAIN runs :
        /\ runs[r].status = "failed" /\ runs[r].exc = "HTTPException"
        /\ runs[q].status = "returned" /\ runs[q].commits.kind = "dict"
        /\ responses[runs[r].tick].status = 202
        /\ responses[runs[q].tick].status = 202

\* C2: a run whose commit fetch returned an error result ends there: it
\* never clones, never runs the linter, never POSTs to the logging webhook
\* and never POSTs to the callback return_url.
C2_ErrorShortCircuits ==
    \A r \in DOMAIN runs :
        runs[r].commits.kind = "dict" =>
            /\ runs[r].clones = 0
            /\ runs[r].lints = 0
            /\ runs[r].logPosts = 0
            /\ runs[r].cbPosts = 0
            /\ runs[r].pc \in {"fetched", "done"}
            /\ runs[r].pc = "done" => runs[r].status = "returned"

C2_Witness ==
    \E r \in DOMAIN runs :
        /\ runs[r].commits = ErrDict("GitHub API error")
        /\ runs[r].pc = "done"
        /\ ~pathExists

\* C3: with the token absent, fetch_github_commits returns
\* {error: "GITHUB_TOKEN not set"} without entering fetch_with_retries (no
\* GET), and the run makes no POST to the logging webhook or the callback.
C3_NoTokenNoTraffic ==
    TokenAbsent =>
        \A r \in DOMAIN runs :
            /\ ~runs[r].entered
            /\ runs[r].frame = NoFrame
            /\ runs[r].logPosts = 0
            /\ runs[r].cbPosts = 0
            /\ runs[r].pc # "scheduled" =>
                   runs[r].commits = ErrDict("GITHUB_TOKEN not set")
            /\ runs[r].pc \in {"scheduled", "fetched", "done"}

C3_Witness ==
    /\ token = ""
    /\ \E r \in DOMAIN runs :
        /\ runs[r].pc = "done"
        /\ runs[r].commits = ErrDict("GITHUB_TOKEN not set")

\* C4: fetch_with_retries with retries = R >= 1 whose every attempt fails
\* transiently makes exactly R GETs, waits only between attempts (R - 1
\* waits, none after the last GET) and then raises the last attempt's
\* exception instead of returning.
C4_ExhaustedRetries ==
    LET f == call.frame IN
    (call.phase # "init" /\ AllTransient(call.log)) =>
        /\ f.gets = Len(call.log)
        /\ f.gets <= f.retries
        /\ f.state = "get" => Len(f.sleeps) = f.gets
        /\ f.state = "sleep" => (f.gets < f.retries /\ Len(f.sleeps) = f.gets - 1)
        /\ FrameDone(f) => f.gets = f.retries
        /\ (FrameDone(f) /\ f.retries >= 1) =>
               /\ f.state = "raised"
               /\ f.exc = call.log[Len(call.log)]
               /\ Len(f.sleeps) = f.retries - 1

C4_Witness ==
    /\ call.frame.state = "raised"
    /\ AllTransient(call.log)
    /\ call.frame.retries = 3
    /\ call.frame.gets = 3
    /\ Len(call.frame.sleeps) = 2

\* C5: N transient failures followed by a success (retries >= N + 1): the
\* response is returned after exactly N + 1 GETs, the wait after failed
\* attempt k (from 0) is 2^k, and the waits add up to at least
\* 2^0 + ... + 2^(N-1).
C5_BackoffThenSuccess ==
    LET f == call.frame
        n == Len(call.log) - 1
    IN  (call.log # <<>> /\ call.log[Len(call.log)] = "ok") =>
            /\ AllTransient(SubSeq(call.log, 1, n))
            /\ f.state = "returned"
            /\ f.retries >= n + 1
            /\ f.gets = n + 1
            /\ f.sleeps = [k \in 1..n |-> 2 ^ (k - 1)]
            /\ SumSeq(f.sleeps) >= (2 ^ n) - 1

C5_Witness ==
    /\ call.log = <<"NetworkError", "ConnectTimeout", "ok">>
    /\ call.frame.state = "returned"
    /\ call.frame.sleeps = <<1, 2>>

\* C6: fetch_with_retries with retries 0 or 1 makes exactly one GET and no
\* backoff wait, whatever the outcome of that attempt.
C6_OneAttempt ==
    LET f == call.frame IN
    (call.phase # "init" /\ ~TokenAbsent /\ f.retries \in {0, 1} /\ FrameDone(f)) =>
        /\ f.gets = 1
        /\ f.sleeps = <<>>

\* C7: a non-transient failure (an HTTP error status, or any exception
\* other than ConnectTimeout / NetworkError) is never retried: it is the
\* last GET of the call and is raised on that attempt with no wait after
\* it, whatever retries is and however many transient failures came first.
C7_NonTransientNotRetried ==
    LET f == call.frame IN
    \A i \in DOMAIN call.log :
        call.log[i] \in {"HTTPStatusError", "ReadTimeout"} =>
            /\ i = Len(call.log)
            /\ AllTransient(SubSeq(call.log, 1, i - 1))
            /\ f.state = "raised"
            /\ f.exc = call.log[i]
            /\ f.gets = i
            /\ Len(f.sleeps) = i - 1

C7_Witness ==
    /\ call.log = <<"NetworkError", "HTTPStatusError">>
    /\ call.frame.retries = MaxRetries
    /\ call.frame.state = "raised"

\* C8: fetch_github_commits never raises: whatever the upstream did
\* (missing token, HTTP error status, retries exhausted, malformed or
\* non-list body, no response from the fetcher) it returns a list of commit
\* records or a mapping with an 'error' key, and 'error' in commits is true
\* exactly for the error results.
C8_NeverRaises ==
    LET f == call.frame
        res == call.result
    IN  call.phase = "done" =>
            /\ res.kind \in {"list", "dict"}
            /\ res.kind = "dict" => "error" \in res.keys
            /\ InTest("error", res) <=> res.kind = "dict"
            /\ (TokenAbsent \/ f.state \in {"raised", "returned_none"}) => res.kind = "dict"
            /\ res.kind = "list" => (f.state = "returned" /\ Len(res.items) <= call.count)

C8_Witness ==
    /\ call.phase = "done"
    /\ call.frame.state = "raised"
    /\ call.frame.exc = "ConnectTimeout"
    /\ call.result = ErrDict("Unexpected error fetching GitHub commits")

Cloners == {r \in DOMAIN runs : runs[r].clones > 0}

\* C9: a clone into /tmp/<repo> is attempted only by a run that saw the
\* path absent, never by one that saw it present; when no clone fails, at
\* most one run clones however the runs interleave, and exactly one does
\* once some run has seen the path absent.
C9_CloneOnce ==
    /\ \A r \in DOMAIN runs :
        /\ runs[r].clones <= 1
        /\ runs[r].clones > 0 => runs[r].sawPath = "absent"
        /\ runs[r].sawPath = "present" => (runs[r].clones = 0 /\ runs[r].clone = "none")
        /\ runs[r].sawPath = "absent" => runs[r].clones = 1
    /\ Cardinality({r \in DOMAIN runs : runs[r].clone = "ok"}) <= 1
    /\ (\A r \in DOMAIN runs : runs[r].clone # "failed") =>
        /\ Cardinality(Cloners) <= 1
        /\ (\E r \in DOMAIN runs : runs[r].sawPath = "absent") => Cardinality(Cloners) = 1
        /\ Cardinality(Cloners) = 1 => pathExists

C9_Witness ==
    \E r, q \in DOMAIN runs :
        /\ r < q
        /\ runs[q].clone = "ok"
        /\ runs[r].sawPath = "present"
        /\ runs[r].lints = 1
        /\ runs[q].lints = 1

\* C10: a failed logging delivery (exception or non-2xx) is neither
\* propagated nor retried: log_to_telex made exactly one POST and returned,
\* the run goes on to the callback POST to its return_url, and the run ends
\* as the callback alone decides, as it does after a successful logging
\* delivery.
C10_LogFailureSwallowed ==
    \A r \in DOMAIN runs :
        /\ runs[r].logOutcome \in {"non2xx", "exception"} =>
            /\ runs[r].logPosts = 1
            /\ runs[r].pc \in {"callback", "callback_wait", "done"}
            /\ runs[r].pc = "done" => (runs[r].cbPosts = 1 /\ runs[r].cbTarget = runs[r].return_url)
        /\ (runs[r].logOutcome \in PostOutcomes /\ runs[r].pc = "done") =>
            runs[r].status = (IF runs[r].cbOutcome = "exception" THEN "failed" ELSE "returned")

C10_Witness ==
    \E r \in DOMAIN runs :
        /\ runs[r].logOutcome = "exception"
        /\ runs[r].pc = "done"
        /\ runs[r].cbOutcome = "2xx"
        /\ runs[r].status = "returned"

\* C11: whenever the callback delivery fails (the POST to return_url raises
\* or is answered with a non-2xx status), process_task ends failed with an
\* error raised out of it, and the tick keeps its 202 acknowledgement.
C11_CallbackFailureSurfaced ==
    \A r \in DOMAIN runs :
        /\ responses[runs[r].tick].status = 202
        /\ (runs[r].pc = "done" /\ runs[r].cbOutcome \in {"non2xx", "exception"}) =>
            (runs[r].status = "failed" /\ runs[r].exc = "HTTPException")

Min(a, b) == IF a < b THEN a ELSE b

\* C12: from an upstream list whose first count entries are commits,
\* fetch_github_commits returns exactly count records when the list has at
\* least count entries and one record per entry when it has fewer; record i
\* carries the sha of upstream entry i (upstream order, first entries only),
\* so every sha is a commit's non-empty sha.
C12_FirstCountInOrder ==
    LET b == call.body
        res == call.result
        k == Min(call.count, Len(b.items))
    IN  (call.phase = "done" /\ b.kind = "list" /\ \A i \in 1..k : b.items[i] > 0) =>
            /\ res.kind = "list"
            /\ Len(res.items) = k
            /\ Len(b.items) >= call.count => Len(res.items) = call.count
            /\ Len(b.items) < call.count => Len(res.items) = Len(b.items)
            /\ \A i \in 1..k : res.items[i] = b.items[i] /\ res.items[i] > 0

C12_Witness ==
    /\ call.phase = "done"
    /\ call.count = 2
    /\ call.body = [kind |-> "list", items |-> <<2, 1, 1>>]
    /\ call.result = ListResult(<<2, 1>>)

PastAnalysis == {"log", "log_wait", "callback", "callback_wait", "done"}

\* C13: when the linter exits non-zero run_pylint returns the output the
\* tool produced instead of raising, and the run goes on as after a zero
\* exit: the report is built and both the logging POST and the callback POST
\* are attempted.
C13_LintFindingsAreData ==
    \A r \in DOMAIN runs :
        /\ runs[r].lint = "nonzero" => runs[r].analysis = "output"
        /\ runs[r].lint = "exit0" => runs[r].analysis = "stdout"
        /\ runs[r].lint \in {"exit0", "nonzero"} =>
            /\ runs[r].pc \in PastAnalysis
            /\ runs[r].exc \notin {"CalledProcessError", "FileNotFoundError"}
            /\ runs[r].pc = "done" => (runs[r].logPosts = 1 /\ runs[r].cbPosts = 1)

C13_Witness ==
    \E r \in DOMAIN runs :
        /\ runs[r].lint = "nonzero"
        /\ runs[r].analysis = "output"
        /\ runs[r].pc = "done"
        /\ runs[r].logPosts = 1
        /\ runs[r].cbPosts = 1

Accepted == {i \in DOMAIN responses : responses[i].status = 202}

\* C14: every accepted tick has exactly one run of process_task and every
\* run belongs to an accepted tick; a run makes at most one POST to the
\* logging webhook and at most one to its callback URL, and exactly one to
\* each once commit fetch, clone and lint have all completed and it is over.
C14_OneRunPerTick ==
    /\ Len(runs) = Cardinality(Accepted)
    /\ \A i \in Accepted : Cardinality({r \in DOMAIN runs : runs[r].tick = i}) = 1
    /\ \A r \in DOMAIN runs :
        /\ runs[r].tick \in Accepted
        /\ runs[r].logPosts <= 1
        /\ runs[r].cbPosts <= 1
        /\ (runs[r].pc = "done" /\ runs[r].lint \in {"exit0", "nonzero"}) =>
            /\ runs[r].logPosts = 1
            /\ runs[r].cbPosts = 1
            /\ runs[r].cbTarget = runs[r].return_url

C14_Witness ==
    /\ Cardinality(Accepted) = 2
    /\ \E r, q \in DOMAIN runs :
        /\ r # q
        /\ runs[r].pc = "done" /\ runs[r].logPosts = 1 /\ runs[r].cbPosts = 1
        /\ runs[q].pc = "done" /\ runs[q].logPosts = 1 /\ runs[q].cbPosts = 1
        /\ runs[r].cbTarget # runs[q].cbTarget

\* C15: the steps of one run are strictly ordered: the commit fetch is over
\* before any clone or linter invocation, the linter is over before the
\* logging POST is issued, and the callback POST is issued only after the
\* logging delivery has come back (succeeded or failed), never while it is
\* in flight.
C15_StepsOrdered ==
    \A r \in DOMAIN runs :
        /\ (runs[r].clones > 0 \/ runs[r].lints > 0) =>
            /\ runs[r].commits.kind = "list"
            /\ runs[r].frame = NoFrame
            /\ runs[r].pc \notin {"scheduled", "fetching", "fetched"}
        /\ runs[r].logPosts > 0 =>
            (runs[r].lints = 1 /\ runs[r].lint \in {"exit0", "nonzero"})
        /\ runs[r].cbPosts > 0 =>
            (runs[r].logPosts = 1 /\ runs[r].logOutcome \in PostOutcomes)
        /\ runs[r].logOutcome = "pending" =>
            (runs[r].pc = "log_wait" /\ runs[r].cbPosts = 0)

C15_Witness ==
    \E r \in DOMAIN runs :
        /\ runs[r].pc = "callback_wait"
        /\ runs[r].logOutcome = "non2xx"
        /\ runs[r].clone = "ok"

\* C16: a failed git clone ends process_task in a failed state before the
\* linter runs: no analysis, no logging POST and no callback POST for that
\* tick; a non-zero linter exit, in contrast, is data and fails nothing.
C16_CloneFailureAborts ==
    \A r \in DOMAIN runs :
        /\ runs[r].clone = "failed" =>
            /\ runs[r].pc = "done"
            /\ runs[r].status = "failed"
            /\ runs[r].exc = "CalledProcessError"
            /\ runs[r].lints = 0
            /\ runs[r].analysis = "none"
            /\ runs[r].logPosts = 0
            /\ runs[r].cbPosts = 0
        /\ runs[r].lint = "nonzero" =>
            (runs[r].exc # "CalledProcessError" /\ runs[r].analysis = "output")

C16_Witness ==
    \E r, q \in DOMAIN runs :
        /\ runs[r].clone = "failed"
        /\ runs[r].status = "failed"
        /\ runs[q].lint = "nonzero"
        /\ runs[q].pc = "log"

\* C17: the sinks classify a non-2xx answer differently: from the logging
\* webhook it is a delivery failure that log_to_telex swallows (the error
\* branch runs, the run goes on); from the callback return_url it is no
\* failure, process_task ends normally, and process_task raises at the
\* callback only when the POST itself raises.
C17_SinksDifferOnNon2xx ==
    \A r \in DOMAIN runs :
        /\ runs[r].logOutcome = "non2xx" =>
            /\ runs[r].logged = "error"
            /\ runs[r].pc \in {"callback", "callback_wait", "done"}
        /\ runs[r].logOutcome = "2xx" => runs[r].logged = "info"
        /\ (runs[r].pc = "done" /\ runs[r].cbOutcome = "non2xx") =>
            (runs[r].status = "returned" /\ runs[r].exc = "none")
        /\ runs[r].exc = "HTTPException" <=>
            (runs[r].pc = "done" /\ runs[r].cbOutcome = "exception")

C17_Witness ==
    \E r \in DOMAIN runs :
        /\ runs[r].logOutcome = "non2xx"
        /\ runs[r].cbOutcome = "non2xx"
        /\ runs[r].pc = "done"
        /\ runs[r].status = "returned"

====
